---- MODULE Spec2Model ----
(***************************************************************************)
(* XAI Risk Sentinel: the MLPipeline object (backend/ml_pipeline.py) and   *)
(* the DataService entry points (backend/data_service.py).                 *)
(*                                                                         *)
(* Units.  GPA values are tenths of a grade point (36 = 3.6).  Class       *)
(* probabilities and risk scores are multiples of 1/Scale.  The column     *)
(* behavioral_risk_score holds BrsScale times the value the code stores    *)
(* (the code divides by 1..5 contributing flags; BrsScale is their lcm).   *)
(* A data frame is modelled by its single row: a function from the column  *)
(* names to the cell values; NaN is the missing cell.                      *)
(***************************************************************************)
EXTENDS Integers, Sequences, FiniteSets, TLC

VARIABLES
    model,          \* MLPipeline.model: the resident classifier object
    feature_names,  \* MLPipeline.feature_names
    is_trained,     \* MLPipeline.is_trained
    last_trained,   \* MLPipeline.last_trained (0 = None)
    disk,           \* the files under MODEL_DIR and other paths handed to save/load
    trainings,      \* number of train_model calls that reached the classifier constructor
    op,             \* what the last completed call did and returned
    tpc, tjob,      \* concurrent retraining: position and locals of the training thread
    ppc, pjob,      \* concurrent prediction: position and locals of the predicting thread
    probe           \* pure-function harness: inputs and outputs of the scoring functions

vars == <<model, feature_names, is_trained, last_trained, disk, trainings, op,
          tpc, tjob, ppc, pjob, probe>>

pipelineVars == <<model, feature_names, is_trained, last_trained>>

-----------------------------------------------------------------------------
(* Bounds and units *)

MaxTrainings == 2

NaN == -10000

Scale == 10000

BrsScale == 60

-----------------------------------------------------------------------------
(* Data frames *)

Has(df, c) == c \in DOMAIN df

Put(df, c, v) == [x \in (DOMAIN df) \cup {c} |-> IF x = c THEN v ELSE df[x]]

\* df[c] = df[c].fillna(0), guarded by "if c in df.columns"
FillNa(df, c) ==
    IF Has(df, c) THEN Put(df, c, IF df[c] = NaN THEN 0 ELSE df[c]) ELSE df

Abs(x) == IF x < 0 THEN -x ELSE x

Flag(b) == IF b THEN 1 ELSE 0

RECURSIVE SeqSum(_)
SeqSum(s) == IF s = <<>> THEN 0 ELSE Head(s) + SeqSum(Tail(s))

RECURSIVE FilterSeq(_, _)
\* [f for f in s if f in keep]
FilterSeq(s, keep) ==
    IF s = <<>> THEN <<>>
    ELSE IF Head(s) \in keep THEN <<Head(s)>> \o FilterSeq(Tail(s), keep)
    ELSE FilterSeq(Tail(s), keep)

Range(s) == {s[i] : i \in 1..Len(s)}

-----------------------------------------------------------------------------
(* engineer_features *)

\* df[['gpa_sem1','gpa_sem2','gpa_sem3']] raises KeyError when gpa_sem2 is not a column
EngineerRaises(df) ==
    Has(df, "gpa_sem1") /\ Has(df, "gpa_sem3") /\ ~Has(df, "gpa_sem2")

EngGpa(df0) ==
    LET d1 == FillNa(FillNa(FillNa(df0, "gpa_sem1"), "gpa_sem2"), "gpa_sem3")
        d2 == IF Has(d1, "gpa_sem1") /\ Has(d1, "gpa_sem3")
              THEN Put(Put(d1, "gpa_decline", d1["gpa_sem1"] - d1["gpa_sem3"]),
                       "gpa_latest", d1["gpa_sem1"])
              ELSE d1
        d3 == IF Has(d2, "gpa_sem1") /\ Has(d2, "gpa_sem2")
              THEN Put(d2, "gpa_sem2_decline", Abs(d2["gpa_sem1"] - d2["gpa_sem2"]))
              ELSE d2
    IN  IF Has(d3, "gpa_sem2") /\ Has(d3, "gpa_sem3")
        THEN Put(d3, "gpa_sem3_decline", Abs(d3["gpa_sem2"] - d3["gpa_sem3"]))
        ELSE d3

EngAttendanceInclusive(df0) ==
    IF Has(df0, "attendance")
    THEN LET d1 == FillNa(df0, "attendance")
             a  == d1["attendance"]
         IN  Put(Put(d1, "attendance_critical", Flag(a <= 50)),
                 "attendance_low", Flag(a > 50 /\ a <= 70))
    ELSE df0

EngAttendance(df0) ==
    IF Has(df0, "attendance")
    THEN LET d1 == FillNa(df0, "attendance")
             a  == d1["attendance"]
         IN  Put(Put(d1, "attendance_critical", Flag(a < 50)),
                 "attendance_low", Flag(a >= 50 /\ a < 70))
    ELSE df0

EngLms(df0) ==
    IF Has(df0, "lms_logins")
    THEN LET d1 == FillNa(df0, "lms_logins")
             l  == d1["lms_logins"]
         IN  Put(Put(d1, "lms_very_low", Flag(l <= 5)), "lms_decline", Flag(l < 10))
    ELSE df0

EngCampus(df0) ==
    LET d1 == FillNa(FillNa(df0, "facility_access"), "library_visits")
    IN  IF Has(d1, "facility_access") /\ Has(d1, "library_visits")
        THEN LET ce == d1["facility_access"] + d1["library_visits"]
             IN  Put(Put(d1, "campus_engagement", ce), "campus_isolated", Flag(ce < 3))
        ELSE d1

EngAfterHours(df0) ==
    IF Has(df0, "after_hours_wifi")
    THEN LET d1 == FillNa(df0, "after_hours_wifi")
         IN  Put(d1, "high_after_hours", Flag(d1["after_hours_wifi"] > 10))
    ELSE df0

EngAssignments(df0) ==
    IF Has(df0, "assignment_submissions")
    THEN LET d1 == FillNa(df0, "assignment_submissions")
         IN  Put(d1, "low_assignments", Flag(d1["assignment_submissions"] < 5))
    ELSE df0

RelievingRiskFactors(df) ==
    (IF Has(df, "attendance_critical") THEN <<3 - df["attendance_critical"] * 3>> ELSE <<>>)
 \o (IF Has(df, "lms_very_low") THEN <<df["lms_very_low"] * 2>> ELSE <<>>)

\* the list risk_factors: one weighted term per flag column present
RiskFactors(df) ==
    (IF Has(df, "attendance_critical") THEN <<df["attendance_critical"] * 3>> ELSE <<>>)
 \o (IF Has(df, "lms_very_low") THEN <<df["lms_very_low"] * 2>> ELSE <<>>)
 \o (IF Has(df, "campus_isolated") THEN <<df["campus_isolated"] * 2>> ELSE <<>>)
 \o (IF Has(df, "high_after_hours") THEN <<df["high_after_hours"]>> ELSE <<>>)
 \o (IF Has(df, "low_assignments") THEN <<df["low_assignments"]>> ELSE <<>>)

FixedDivisorBehavioral(df0) ==
    LET rf == RiskFactors(df0)
    IN  IF rf # <<>>
        THEN Put(df0, "behavioral_risk_score", (SeqSum(rf) * BrsScale) \div 5)
        ELSE df0

EngBehavioral(df0) ==
    LET rf == RiskFactors(df0)
    IN  IF rf # <<>>
        THEN Put(df0, "behavioral_risk_score", (SeqSum(rf) * BrsScale) \div Len(rf))
        ELSE df0

SharedFrame(df, e) == e

\* "df = df.copy()" (line 129): every assignment goes to the copy, so the table the
\* caller passed is, after the call that produced e, still df
CallerFrame(df, e) == df

\* the engineered copy of df; defined when ~EngineerRaises(df)
engineer_features(df) ==
    EngBehavioral(EngAssignments(EngAfterHours(EngCampus(EngLms(EngAttendance(EngGpa(df)))))))

-----------------------------------------------------------------------------
(* prepare_features *)

numeric_features ==
    << "gpa_sem1", "gpa_sem2", "gpa_sem3",
       "gpa_decline", "gpa_sem2_decline", "gpa_sem3_decline",
       "attendance", "attendance_critical", "attendance_low",
       "lms_logins", "lms_very_low",
       "facility_access", "library_visits", "campus_engagement", "campus_isolated",
       "after_hours_wifi", "assignment_submissions", "low_assignments",
       "behavioral_risk_score" >>

\* feature_cols = [f for f in numeric_features if f in df.columns]
FeatureCols(df) == FilterSeq(numeric_features, DOMAIN df)

UnfilledX(df) ==
    LET fc == FilterSeq(numeric_features, DOMAIN df)
    IN  [i \in 1..Len(fc) |-> df[fc[i]]]

\* X = df[feature_cols].copy().fillna(0), as the row of cell values in column order
SelectX(df) ==
    LET fc == FeatureCols(df)
    IN  [i \in 1..Len(fc) |-> IF df[fc[i]] = NaN THEN 0 ELSE df[fc[i]]]

-----------------------------------------------------------------------------
(* The classifier object (XGBClassifier) *)

NoModel == [kind |-> "none", gen |-> 0, feats |-> <<>>, theta |-> 0]

\* XGBClassifier(...) as constructed by train_model, before fit
Unfitted(g) == [kind |-> "unfitted", gen |-> g, feats |-> <<>>, theta |-> 0]

\* the same object after fit(X, y): it remembers the column names of X;
\* theta stands for the learned trees
Fitted(g, fc, th) == [kind |-> "fitted", gen |-> g, feats |-> fc, theta |-> th]

\* fit is run with random_state=42: the trees are a function of the training table
LearnedTrees(t) == Cardinality(DOMAIN t.df)

\* fit(X, y) raises on a table without rows and on labels outside {low, medium, high}
\* (they map to NaN)
FitRaises(t) == t.empty \/ t.label # "ok"

\* what model.predict(X) / predict_proba(X) does with the object m and the columns fc
\* of X: "ok", or the exception it raises
ModelPredictOutcome(m, fc) ==
    IF m.kind = "none" THEN "AttributeError"
    ELSE IF m.kind = "unfitted" THEN "NotFittedError"
    ELSE IF m.feats # fc THEN "ValueError: feature_names mismatch"
    ELSE "ok"

\* class probabilities <<P(low), P(medium), P(high)>> a fitted ensemble can return;
\* a row sums to 1 up to rounding
ProbTable ==
    << <<3000, 0, 7000>>, <<3001, 0, 6999>>, <<6000, 0, 4000>>, <<6001, 0, 3999>>,
       <<0, 2, 10000>>, <<2000, 6000, 2000>>, <<9000, 1000, 0>>, <<4500, 0, 5500>> >>

StatefulProba(m, xrow) ==
    ProbTable[((m.theta + Abs(SeqSum(xrow)) + Len(feature_names)) % Len(ProbTable)) + 1]

\* predict_proba: a fixed function of the learned trees and the feature row
PredictProba(m, xrow) == ProbTable[((m.theta + Abs(SeqSum(xrow))) % Len(ProbTable)) + 1]

\* predict: the class of largest probability, the first one on ties
PredictClass(p) ==
    IF p[1] >= p[2] /\ p[1] >= p[3] THEN "low"
    ELSE IF p[2] >= p[3] THEN "medium" ELSE "high"

-----------------------------------------------------------------------------
(* Risk score and tier (predict) *)

HighThreshold == 7000

MediumThreshold == 4000

Clip(x, lo, hi) == IF x < lo THEN lo ELSE IF x > hi THEN hi ELSE x

FullWeightScore(p) == Clip(p[3] + p[2], 0, Scale)

\* the score the comment at line 378 names: "Use probability of high risk"
HighOnlyScore(p) == Clip(p[3], 0, Scale)

\* risk_scores = np.clip(probabilities[:, 2] + 0.5 * probabilities[:, 1], 0, 1)
\* (P(medium) is an even multiple of 1/Scale in every row used here)
RiskScore(p) == Clip(p[3] + p[2] \div 2, 0, Scale)

StrictTier(x) ==
    IF x > HighThreshold THEN "high" ELSE IF x > MediumThreshold THEN "medium" ELSE "low"

\* lambda x: 'high' if x >= 0.7 else 'medium' if x >= 0.4 else 'low'
Tier(x) ==
    IF x >= HighThreshold THEN "high" ELSE IF x >= MediumThreshold THEN "medium" ELSE "low"

-----------------------------------------------------------------------------
(* Model persistence: joblib file plus JSON metadata sidecar *)

\* A path is the sequence of its pieces; MODEL_PATH = MODEL_DIR/risk_model.joblib
MODEL_PATH == <<"models/", "risk_model", ".joblib">>

OtherPath == <<"models/", "risk_model", ".pkl">>

\* the path argument of save_model / load_model: <<>> is None
PathArgs == {<<>>, OtherPath}

ResolvePath(path) == IF path = <<>> THEN MODEL_PATH ELSE path

\* path.replace('.joblib', '_metadata.json')
MetadataPath(path) ==
    [i \in 1..Len(path) |-> IF path[i] = ".joblib" THEN "_metadata.json" ELSE path[i]]

Files == {ResolvePath(p) : p \in PathArgs} \cup {MetadataPath(ResolvePath(p)) : p \in PathArgs}

NoMeta == [feature_names |-> <<>>, last_trained |-> <<>>, is_trained |-> "null"]

Absent == [type |-> "absent", model |-> NoModel, meta |-> NoMeta]

JoblibFile(m) == [type |-> "joblib", model |-> m, meta |-> NoMeta]

JsonFile(doc) == [type |-> "json", model |-> NoModel, meta |-> doc]

\* json.dump(metadata, f): a JSON array of strings, a number or null, true or false
JsonDump(fn, lt, it) ==
    [feature_names |-> fn,
     last_trained  |-> IF lt = 0 THEN <<>> ELSE <<lt>>,
     is_trained    |-> IF it THEN "true" ELSE "false"]

\* metadata.get('feature_names', []), .get('last_trained'), .get('is_trained', True)
JsonFeatureNames(doc) == doc.feature_names

JsonLastTrained(doc) == IF doc.last_trained = <<>> THEN 0 ELSE doc.last_trained[1]

JsonIsTrained(doc) == doc.is_trained # "false"

SaveFaults == {"none", "dump", "metadata"}

\* save_model returns: False without a model, False when a write raises, else True
SaveReturns(ps, fault) == ps.model.kind # "none" /\ fault = "none"

\* the files after save_model: joblib.dump first, then the sidecar
SaveDisk(ps, d, path, fault) ==
    LET p  == ResolvePath(path)
        mp == MetadataPath(p)
        d1 == [d EXCEPT ![p] = JoblibFile(ps.model)]
    IN  IF ps.model.kind = "none" \/ fault = "dump" THEN d
        ELSE IF fault = "metadata" THEN d1
        ELSE [d1 EXCEPT ![mp] =
                 JsonFile(JsonDump(ps.feature_names, ps.last_trained, ps.is_trained))]

\* load_model: [ps |-> the pipeline fields afterwards, ret |-> its return value]
LoadModel(ps, d, path) ==
    LET p  == ResolvePath(path)
        mp == MetadataPath(p)
    IN  IF d[p].type # "joblib" THEN [ps |-> ps, ret |-> FALSE]
        ELSE LET ps1 == [ps EXCEPT !.model = d[p].model]
             IN  IF d[mp].type = "absent" THEN [ps |-> ps1, ret |-> TRUE]
                 ELSE IF d[mp].type # "json" THEN [ps |-> ps1, ret |-> FALSE]
                 ELSE [ps |-> [ps1 EXCEPT
                                 !.feature_names = JsonFeatureNames(d[mp].meta),
                                 !.last_trained = JsonLastTrained(d[mp].meta),
                                 !.is_trained = JsonIsTrained(d[mp].meta)],
                       ret |-> TRUE]

-----------------------------------------------------------------------------
(* The calls, as functions of the pipeline fields ps and the files d *)

Fresh == [model |-> NoModel, feature_names |-> <<>>, is_trained |-> FALSE, last_trained |-> 0]

Current ==
    [model |-> model, feature_names |-> feature_names,
     is_trained |-> is_trained, last_trained |-> last_trained]

NoSave == [valid |-> FALSE, path |-> <<>>, feature_names |-> <<>>, is_trained |-> FALSE]

\* the observation of a call: how it ended, and what it handed to the classifier
NoCall ==
    [name |-> "none", outcome |-> "return", value |-> "", err |-> "",
     path |-> <<>>, fed |-> FALSE, X |-> <<>>, xrow |-> <<>>, used |-> NoModel,
     proba |-> <<0, 0, 0>>, risk |-> 0, tier |-> "", prediction |-> "",
     explained |-> "", saveret |-> "not called", saved |-> NoSave,
     label |-> "", empty |-> FALSE, explainX |-> <<>>]

Raise(call, e) == [call EXCEPT !.outcome = "raise", !.err = e]

Return(call, v) == [call EXCEPT !.outcome = "return", !.value = v]

\* predict, lines 362-365: "if not self.is_trained: if not self.load_model(): raise"
EnsureLoaded(ps, d) ==
    IF ps.is_trained THEN [ps |-> ps, ret |-> TRUE] ELSE LoadModel(ps, d, <<>>)

\* predict, lines 372-392: the classifier's answer mo on X, then the result row
PredictResults(ps1, fedc, mo, hasId, pr) ==
    IF mo # "ok" THEN [ps |-> ps1, call |-> Raise(fedc, mo)]
    ELSE IF ~hasId
    THEN [ps |-> ps1, call |-> Raise(fedc, "KeyError: student_id")]
    ELSE [ps |-> ps1,
          call |-> Return([fedc EXCEPT !.proba = pr, !.risk = RiskScore(pr),
                                       !.tier = Tier(RiskScore(pr)),
                                       !.prediction = PredictClass(pr)],
                          "result")]

\* predict, lines 369-373: prepare_features records fc, the classifier is handed X
PredictOnX(ps, call0, hasId, fc, xr) ==
    PredictResults([ps EXCEPT !.feature_names = fc],
                   [call0 EXCEPT !.fed = TRUE, !.X = fc, !.xrow = xr, !.used = ps.model],
                   ModelPredictOutcome(ps.model, fc), hasId, PredictProba(ps.model, xr))

\* predict, line 369, on the engineered frame e
PredictEngineered(ps, call0, e) ==
    PredictOnX(ps, call0, Has(e, "student_id"), FeatureCols(e), SelectX(e))

\* predict after its is_trained check ld
PredictLoaded(ld, df, call0) ==
    IF ~ld.ret
    THEN [ps |-> ld.ps, call |-> Raise(call0, "ValueError: Model not trained")]
    ELSE IF EngineerRaises(df)
    THEN [ps |-> ld.ps, call |-> Raise(call0, "KeyError: gpa_sem2")]
    ELSE PredictEngineered(ld.ps, call0, engineer_features(df))

\* MLPipeline.predict on the one-row frame df: [ps, call]
PredictCall(ps0, d, df, call0) == PredictLoaded(EnsureLoaded(ps0, d), df, call0)

\* predict_single, lines 415-420, on the result r of predict; explainOk: whether
\* shap.TreeExplainer(...).shap_values accepts the frame it is handed
ExplainPrediction(r, explainOk) ==
    IF r.call.outcome = "raise" THEN r
    ELSE IF ~r.ps.is_trained
    THEN [ps |-> r.ps, call |-> [r.call EXCEPT !.explained = "empty"]]
    ELSE IF ~explainOk
    THEN [ps |-> r.ps, call |-> Raise(r.call, "shap_values raised")]
    ELSE [ps |-> r.ps, call |-> [r.call EXCEPT !.explained = "shap"]]

\* predict_single, line 418: generate_shap_explanation(df.iloc[0:1], student_data)
\* is handed df = pd.DataFrame([student_data]), the frame predict was called with
ExplainerFrame(df) == df

\* the call record with the frame the explainer was handed, when it was called
HandedToExplainer(r, df) ==
    IF r.call.fed /\ r.call.outcome = "return" /\ r.ps.is_trained
    THEN [ps |-> r.ps, call |-> [r.call EXCEPT !.explainX = ExplainerFrame(df)]]
    ELSE r

\* predict_single after its is_trained check ld
PredictSingleLoaded(ld, d, data, explainOk, call0) ==
    IF ~ld.ret
    THEN [ps |-> ld.ps, call |-> Raise(call0, "ValueError: Model not trained")]
    ELSE ExplainPrediction(HandedToExplainer(PredictCall(ld.ps, d, data, call0), data),
                           explainOk)

\* MLPipeline.predict_single on the dict data
PredictSingleCall(ps0, d, data, explainOk, call0) ==
    PredictSingleLoaded(EnsureLoaded(ps0, d), d, data, explainOk, call0)

\* predict_student(student_data), the module-level helper; when the pipeline is
\* still untrained after load_model() it returns {"error": "Model not trained"}
PredictStudentCall(ps0, d, data, explainOk, call0) ==
    LET ps1 == IF ps0.is_trained THEN ps0 ELSE LoadModel(ps0, d, <<>>).ps
    IN  IF ~ps1.is_trained
        THEN [ps |-> ps1, call |-> Return(call0, "error_dict")]
        ELSE PredictSingleCall(ps1, d, data, explainOk, call0)

\* student.get(key, default)
Get(student, key, default) == IF key \in DOMAIN student THEN student[key] ELSE default

\* gpa[1] if len(gpa) > 1 else gpa[0] raises IndexError on an empty list
ToMlFormatRaises(student) == Get(student, "gpa", <<0, 0, 0>>) = <<>>

\* DataService._to_ml_format
ToMlFormat(student) ==
    LET gpa == Get(student, "gpa", <<0, 0, 0>>)
    IN  [student_id |-> Get(student, "id", ""),
         name |-> Get(student, "name", ""),
         programme |-> Get(student, "programme", ""),
         year |-> Get(student, "year", 1),
         gpa_sem1 |-> IF Len(gpa) > 0 THEN gpa[1] ELSE 0,
         gpa_sem2 |-> IF Len(gpa) > 1 THEN gpa[2] ELSE gpa[1],
         gpa_sem3 |-> IF Len(gpa) > 2 THEN gpa[3] ELSE gpa[1],
         attendance |-> Get(student, "attendance", 0),
         lms_logins |-> Get(student, "lmsLogins", 0),
         facility_access |-> Get(student, "facilityAccess", 0)]

\* DataService.predict_single_student(student)
DSPredictSingleStudentCall(ps0, d, student, explainOk, call0) ==
    LET ps1 == IF ps0.is_trained THEN ps0 ELSE LoadModel(ps0, d, <<>>).ps
    IN  IF ~ps1.is_trained
        THEN [ps |-> ps1, call |-> Return(call0, "error_dict")]
        ELSE IF ToMlFormatRaises(student)
        THEN [ps |-> ps1, call |-> Raise(call0, "IndexError")]
        ELSE PredictSingleCall(ps1, d, ToMlFormat(student), explainOk, call0)

TargetAssumedPresent(t) == TRUE

\* 'risk_label' in df.columns
HasTarget(t) == t.label # "none"

\* train_model, lines 285-308: the attribution analysis, then the status
\* (line 282 drops save_model's return value: the status is "success" either way)
TrainSaved(ps3, d3, c3, shapOk) ==
    IF ~shapOk
    THEN [ps |-> ps3, d |-> d3, started |-> TRUE, call |-> Raise(c3, "shap_values raised")]
    ELSE [ps |-> ps3, d |-> d3, started |-> TRUE, call |-> Return(c3, "success")]

\* train_model, lines 281-282, with the fitted pipeline ps3
TrainFitted(ps3, d, c1, save, fault, shapOk) ==
    TrainSaved(ps3,
               IF save THEN SaveDisk(ps3, d, <<>>, fault) ELSE d,
               [c1 EXCEPT !.fed = TRUE, !.used = ps3.model,
                          !.saveret = IF ~save THEN "not called"
                                      ELSE IF SaveReturns(ps3, fault) THEN "True"
                                      ELSE "False"],
               shapOk)

\* train_model, lines 254-278, after prepare_features
TrainOnX(ps1, d, t, save, g, fault, shapOk, c1, fc) ==
    IF ~HasTarget(t)
    THEN [ps |-> ps1, d |-> d, started |-> FALSE,
          call |-> Raise(c1, "ValueError: No risk_label column found in data")]
    ELSE IF FitRaises(t)
    THEN [ps |-> [ps1 EXCEPT !.model = Unfitted(g)], d |-> d, started |-> TRUE,
          call |-> Raise(c1, "fit raised")]
    ELSE TrainFitted([ps1 EXCEPT !.model = Fitted(g, fc, LearnedTrees(t)),
                                 !.is_trained = TRUE, !.last_trained = g],
                     d, c1, save, fault, shapOk)

\* train_model, line 249: prepare_features records fc
TrainPrepared(ps0, d, t, save, g, fault, shapOk, call0, fc, xr) ==
    TrainOnX([ps0 EXCEPT !.feature_names = fc], d, t, save, g, fault, shapOk,
             [call0 EXCEPT !.X = fc, !.xrow = xr], fc)

\* train_model on the engineered frame e
TrainEngineered(ps0, d, t, save, g, fault, shapOk, call0, e) ==
    TrainPrepared(ps0, d, t, save, g, fault, shapOk, call0, FeatureCols(e), SelectX(e))

\* MLPipeline.train_model(t, save): [ps, d, call, started]
\*   g: the identity of the classifier object and the time of training
\*   fault: how the writes in save_model go
\*   shapOk: whether the attribution analysis after fitting completes
TrainModelCall(ps0, d, t, save, g, fault, shapOk, call0) ==
    IF EngineerRaises(t.df)
    THEN [ps |-> ps0, d |-> d, call |-> Raise(call0, "KeyError: gpa_sem2"), started |-> FALSE]
    ELSE TrainEngineered(ps0, d, t, save, g, fault, shapOk, call0, engineer_features(t.df))

-----------------------------------------------------------------------------
(* Inputs *)

Restrict(row, cols) == [c \in cols \cap DOMAIN row |-> row[c]]

HighRow ==
    [student_id |-> "N00411234", name |-> "Tinashe Moyo",
     programme |-> "BSc Computer Science", year |-> 3,
     gpa_sem1 |-> 36, gpa_sem2 |-> 32, gpa_sem3 |-> 24,
     attendance |-> 48, lms_logins |-> 3, facility_access |-> 1, library_visits |-> 0,
     after_hours_wifi |-> 14, assignment_submissions |-> 3]

LowRow ==
    [student_id |-> "N00415678", name |-> "Rudo Ncube",
     programme |-> "BSc Informatics", year |-> 2,
     gpa_sem1 |-> 35, gpa_sem2 |-> 35, gpa_sem3 |-> NaN,
     attendance |-> 88, lms_logins |-> 27, facility_access |-> 14, library_visits |-> 6,
     after_hours_wifi |-> 2, assignment_submissions |-> 9]

\* the columns of data/students.csv (convert_csv_to_student_format, lines 52-57)
CsvCols ==
    {"student_id", "name", "programme", "year", "gpa_sem1", "gpa_sem2", "gpa_sem3",
     "attendance", "lms_logins", "facility_access", "library_visits",
     "after_hours_wifi", "assignment_submissions"}

\* the keys _to_ml_format produces
ServeCols ==
    {"student_id", "name", "programme", "year", "gpa_sem1", "gpa_sem2", "gpa_sem3",
     "attendance", "lms_logins", "facility_access"}

MinCols == {"student_id", "attendance", "lms_logins"}

NoIdCols == {"attendance", "lms_logins"}

BrokenGpaCols == {"student_id", "gpa_sem1", "gpa_sem3", "attendance"}

\* a training table: its row, whether it has no rows at all, and its risk_label
\* column ("none": no such column; "bad": a label outside low/medium/high)
Table(cols, empty, label) == [df |-> Restrict(HighRow, cols), empty |-> empty, label |-> label]

TrainTables ==
    { Table(CsvCols, FALSE, "ok"), Table(ServeCols, FALSE, "ok"),
      Table(CsvCols, FALSE, "none"), Table(CsvCols, TRUE, "ok"), Table({}, TRUE, "none"),
      Table(CsvCols, FALSE, "bad"), Table(BrokenGpaCols, FALSE, "none") }

PersistTables == { Table(CsvCols, FALSE, "ok"), Table(ServeCols, FALSE, "ok") }

PredictRows ==
    { Restrict(HighRow, CsvCols), Restrict(LowRow, CsvCols), Restrict(HighRow, ServeCols),
      Restrict(LowRow, MinCols), Restrict(HighRow, NoIdCols), Restrict(HighRow, BrokenGpaCols) }

PersistRows == { Restrict(LowRow, MinCols) }

\* student records in the API format of server.py STUDENTS
Students ==
    { [id |-> "N00411234", name |-> "Tinashe Moyo", programme |-> "BSc Computer Science",
       year |-> 3, gpa |-> <<36, 32, 24>>, attendance |-> 48, lmsLogins |-> 3,
       facilityAccess |-> 1],
      [id |-> "N00415678", name |-> "Rudo Ncube", programme |-> "BSc Informatics",
       year |-> 2, gpa |-> <<35>>, attendance |-> 88, lmsLogins |-> 27,
       facilityAccess |-> 14],
      [id |-> "N00419999", name |-> "New Student", gpa |-> <<>>] }

\* how save_model's writes go, or that train_model was called with save=False
SaveModes == {"no save", "none", "dump", "metadata"}

-----------------------------------------------------------------------------
(* The pipeline's calls as actions *)

Install(ps) ==
    /\ model' = ps.model
    /\ feature_names' = ps.feature_names
    /\ is_trained' = ps.is_trained
    /\ last_trained' = ps.last_trained

Parked == UNCHANGED <<tpc, tjob, ppc, pjob, probe>>

Named(n) == [NoCall EXCEPT !.name = n]

\* the effect of a prediction call with result r
Commit(r) == Install(r.ps) /\ op' = r.call

\* the effect of a train_model call with result r
CommitTraining(r) ==
    /\ Install(r.ps)
    /\ disk' = r.d
    /\ op' = r.call
    /\ trainings' = IF r.started THEN trainings + 1 ELSE trainings

TrainModelOn(tables) ==
    /\ trainings < MaxTrainings
    /\ \E t \in tables, mode \in SaveModes, shapOk \in BOOLEAN :
          CommitTraining(TrainModelCall(Current, disk, t, mode # "no save", trainings + 1,
                                        IF mode = "no save" THEN "none" ELSE mode, shapOk,
                                        [Named("train_model") EXCEPT !.label = t.label,
                                                                     !.empty = t.empty]))
    /\ Parked

TrainModel == TrainModelOn(TrainTables)

PredictOn(rows) ==
    /\ \E df \in rows :
          Commit(PredictCall(Current, disk, df, Named("predict")))
    /\ UNCHANGED <<disk, trainings>>
    /\ Parked

Predict == PredictOn(PredictRows)

PredictSingle ==
    /\ \E data \in PredictRows, explainOk \in BOOLEAN :
          Commit(PredictSingleCall(Current, disk, data, explainOk, Named("predict_single")))
    /\ UNCHANGED <<disk, trainings>>
    /\ Parked

PredictStudent ==
    /\ \E data \in PredictRows, explainOk \in BOOLEAN :
          Commit(PredictStudentCall(Current, disk, data, explainOk, Named("predict_student")))
    /\ UNCHANGED <<disk, trainings>>
    /\ Parked

DSPredictSingleStudent ==
    /\ \E student \in Students, explainOk \in BOOLEAN :
          Commit(DSPredictSingleStudentCall(Current, disk, student, explainOk,
                                              Named("predict_single_student")))
    /\ UNCHANGED <<disk, trainings>>
    /\ Parked

SaveModel ==
    /\ \E path \in PathArgs, fault \in SaveFaults :
          LET ret == SaveReturns(Current, fault)
          IN  /\ disk' = SaveDisk(Current, disk, path, fault)
              /\ op' = [Named("save_model") EXCEPT
                          !.value = IF ret THEN "True" ELSE "False",
                          !.path = path,
                          !.saved = IF ret
                                    THEN [valid |-> TRUE, path |-> path,
                                          feature_names |-> feature_names,
                                          is_trained |-> is_trained]
                                    ELSE NoSave]
    /\ UNCHANGED <<pipelineVars, trainings>>
    /\ Parked

LoadModelOp ==
    /\ \E path \in PathArgs :
          LET r == LoadModel(Current, disk, path)
          IN  /\ Install(r.ps)
              /\ op' = [Named("load_model") EXCEPT
                          !.value = IF r.ret THEN "True" ELSE "False",
                          !.path = path,
                          !.saved = IF op.saved.valid /\ op.saved.path = path
                                    THEN op.saved ELSE NoSave]
    /\ UNCHANGED <<disk, trainings>>
    /\ Parked

\* a new process: "pipeline = MLPipeline()" at import; the files stay
Restart ==
    /\ Install(Fresh)
    /\ op' = [Named("restart") EXCEPT !.saved = op.saved]
    /\ UNCHANGED <<disk, trainings>>
    /\ Parked

NoJob == [df |-> <<>>, stage |-> "none"]

NoProbe == [kind |-> "none"]

Init ==
    /\ model = NoModel
    /\ feature_names = <<>>
    /\ is_trained = FALSE
    /\ last_trained = 0
    /\ disk = [f \in Files |-> Absent]
    /\ trainings = 0
    /\ op = NoCall
    /\ tpc = "idle" /\ tjob = NoJob
    /\ ppc = "idle" /\ pjob = NoJob
    /\ probe = NoProbe

Next ==
    \/ TrainModel
    \/ Predict
    \/ PredictSingle
    \/ PredictStudent
    \/ DSPredictSingleStudent
    \/ Restart

Spec == Init /\ [][Next]_vars

\* persistence: training, explicit save_model / load_model calls, restarts
NextPersist ==
    \/ TrainModelOn(PersistTables)
    \/ PredictOn(PersistRows)
    \/ SaveModel
    \/ LoadModelOp
    \/ Restart

SpecPersist == Init /\ [][NextPersist]_vars

-----------------------------------------------------------------------------
(* Scoring one row of predict_proba output (predict, lines 372-390) *)

\* rows of predict_proba: each entry in [0,1], the sum 1 up to rounding, P(medium) even
PHighs == {0, 2, 2000, 3334, 3336, 3999, 4000, 4001, 5000, 5500, 6999, 7000, 7001, 9998, 10000}

PMediums == {0, 2, 1000, 3332, 6000, 7998, 8000, 10000}

ProbaRows ==
    { <<Scale - pm - ph + eps, pm, ph>> : <<pm, ph, eps>> \in
        { q \in PMediums \X PHighs \X {-2, 0, 2} :
            Scale - q[1] - q[2] + q[3] \in 0..Scale } }

InitScore ==
    /\ model = NoModel
    /\ feature_names = <<>>
    /\ is_trained = FALSE
    /\ last_trained = 0
    /\ disk = [f \in Files |-> Absent]
    /\ trainings = 0
    /\ op = NoCall
    /\ tpc = "idle" /\ tjob = NoJob
    /\ ppc = "idle" /\ pjob = NoJob
    /\ probe \in {[kind |-> "proba", p |-> p] : p \in ProbaRows}

ScoreRow ==
    /\ probe.kind = "proba"
    /\ probe' = [kind |-> "scored", p |-> probe.p,
                 risk |-> RiskScore(probe.p),
                 tier |-> Tier(RiskScore(probe.p)),
                 prediction |-> PredictClass(probe.p)]
    /\ UNCHANGED <<pipelineVars, disk, trainings, op, tpc, tjob, ppc, pjob>>

NextScore == ScoreRow

SpecScore == InitScore /\ [][NextScore]_vars

-----------------------------------------------------------------------------
(* Engineering and selecting the features of one training row
   (train_model, lines 248-249) *)

RawFeatureCols ==
    {"gpa_sem1", "gpa_sem2", "gpa_sem3", "attendance", "lms_logins", "facility_access",
     "library_visits", "after_hours_wifi", "assignment_submissions"}

MissingRow ==
    [student_id |-> "N00420000", name |-> "Farai Dube",
     gpa_sem1 |-> 30, gpa_sem2 |-> NaN, gpa_sem3 |-> 33,
     attendance |-> NaN, lms_logins |-> 10, facility_access |-> NaN, library_visits |-> 2,
     after_hours_wifi |-> NaN, assignment_submissions |-> 5]

\* a table may also carry a column of the candidate list that nothing recomputes
Precomputed == [campus_engagement |-> NaN]

EngInputs ==
    { Restrict(r, cols \cup {"student_id"}) : r \in {HighRow, LowRow, MissingRow},
                                               cols \in SUBSET RawFeatureCols }
    \cup
    { Restrict(MissingRow, cols) @@ Precomputed : cols \in SUBSET RawFeatureCols }

InitEng ==
    /\ model = NoModel
    /\ feature_names = <<>>
    /\ is_trained = FALSE
    /\ last_trained = 0
    /\ disk = [f \in Files |-> Absent]
    /\ trainings = 0
    /\ op = NoCall
    /\ tpc = "idle" /\ tjob = NoJob
    /\ ppc = "idle" /\ pjob = NoJob
    /\ probe \in {[kind |-> "raw", df |-> df] : df \in EngInputs}

EngineerStep ==
    /\ probe.kind = "raw"
    /\ probe' = IF EngineerRaises(probe.df)
                THEN [kind |-> "raised", raw |-> probe.df, df |-> probe.df]
                ELSE [kind |-> "engineered", raw |-> probe.df,
                      df |-> CallerFrame(probe.df, engineer_features(probe.df)),
                      e |-> engineer_features(probe.df)]
    /\ UNCHANGED <<pipelineVars, disk, trainings, op, tpc, tjob, ppc, pjob>>

\* a second call on the table the caller still holds
EngineerAgain ==
    /\ probe.kind = "engineered"
    /\ ~EngineerRaises(probe.df)
    /\ probe' = [kind |-> "twice", raw |-> probe.raw,
                 df |-> CallerFrame(probe.df, engineer_features(probe.df)),
                 e |-> probe.e, e2 |-> engineer_features(probe.df)]
    /\ UNCHANGED <<pipelineVars, disk, trainings, op, tpc, tjob, ppc, pjob>>

PrepareStep ==
    /\ probe.kind = "engineered"
    /\ feature_names' = FeatureCols(probe.e)
    /\ probe' = [kind |-> "selected", df |-> probe.df, e |-> probe.e,
                 X |-> FeatureCols(probe.e), xrow |-> SelectX(probe.e)]
    /\ UNCHANGED <<model, is_trained, last_trained, disk, trainings, op, tpc, tjob, ppc, pjob>>

NextEng == EngineerStep \/ EngineerAgain \/ PrepareStep

SpecEng == InitEng /\ [][NextEng]_vars

-----------------------------------------------------------------------------
(* A retraining and a prediction running at the same time on the shared
   pipeline object: each thread runs its method one statement at a time *)

ConcTables == { Table(CsvCols, FALSE, "ok"), Table(ServeCols, FALSE, "ok") }

ConcRows == { Restrict(HighRow, CsvCols), Restrict(LowRow, ServeCols) }

\* train_model is entered (line 247)
TrainBegin ==
    /\ tpc = "idle"
    /\ trainings < MaxTrainings
    /\ \E t \in ConcTables :
          tjob' = [t |-> t, e |-> engineer_features(t.df), g |-> trainings + 1]
    /\ tpc' = "prepare"
    /\ UNCHANGED <<pipelineVars, disk, trainings, op, ppc, pjob, probe>>

\* X = self.prepare_features(df) (line 249, assigning self.feature_names at 225)
TrainPrepare ==
    /\ tpc = "prepare"
    /\ feature_names' = FeatureCols(tjob.e)
    /\ tpc' = "construct"
    /\ UNCHANGED <<model, is_trained, last_trained, disk, trainings, op, tjob, ppc, pjob, probe>>

\* self.model = XGBClassifier(...) (line 260)
TrainConstruct ==
    /\ tpc = "construct"
    /\ model' = Unfitted(tjob.g)
    /\ trainings' = tjob.g
    /\ tpc' = "fit"
    /\ UNCHANGED <<feature_names, is_trained, last_trained, disk, op, tjob, ppc, pjob, probe>>

\* self.model.fit(X, y) (line 271): the object is usable once fit has returned
TrainFit ==
    /\ tpc = "fit"
    /\ model' = Fitted(tjob.g, FeatureCols(tjob.e), LearnedTrees(tjob.t))
    /\ tpc' = "mark"
    /\ UNCHANGED <<feature_names, is_trained, last_trained, disk, trainings, op, tjob, ppc,
                   pjob, probe>>

\* self.is_trained = True; self.last_trained = now (lines 277-278)
TrainMark ==
    /\ tpc = "mark"
    /\ is_trained' = TRUE
    /\ last_trained' = tjob.g
    /\ tpc' = "save"
    /\ UNCHANGED <<model, feature_names, disk, trainings, op, tjob, ppc, pjob, probe>>

\* self.save_model() and the rest of train_model (lines 282-308)
TrainSave ==
    /\ tpc = "save"
    /\ disk' = SaveDisk(Current, disk, <<>>, "none")
    /\ tpc' = "idle"
    /\ tjob' = NoJob
    /\ op' = Return([Named("train_model") EXCEPT !.used = model, !.X = feature_names,
                                                 !.saveret = "True"], "success")
    /\ UNCHANGED <<pipelineVars, trainings, ppc, pjob, probe>>

\* predict is entered (line 352)
PredictBegin ==
    /\ ppc = "idle"
    /\ \E df \in ConcRows :
          pjob' = [df |-> df, e |-> engineer_features(df), read1 |-> NoModel, read2 |-> NoModel]
    /\ ppc' = "check"
    /\ UNCHANGED <<pipelineVars, disk, trainings, op, tpc, tjob, probe>>

\* "if not self.is_trained: if not self.load_model(): raise" (lines 362-365)
PredictCheck ==
    /\ ppc = "check"
    /\ LET ld == EnsureLoaded(Current, disk)
       IN  /\ Install(ld.ps)
           /\ IF ld.ret
              THEN ppc' = "prepare" /\ pjob' = pjob /\ op' = op
              ELSE /\ ppc' = "idle"
                   /\ pjob' = NoJob
                   /\ op' = Raise(Named("predict"), "ValueError: Model not trained")
    /\ UNCHANGED <<disk, trainings, tpc, tjob, probe>>

\* X = self.prepare_features(df) (line 369)
PredictPrepare ==
    /\ ppc = "prepare"
    /\ feature_names' = FeatureCols(pjob.e)
    /\ ppc' = "predict"
    /\ UNCHANGED <<model, is_trained, last_trained, disk, trainings, op, tpc, tjob, pjob, probe>>

\* predictions = self.model.predict(X) (line 372): the first read of self.model
PredictReadModel ==
    /\ ppc = "predict"
    /\ pjob' = [pjob EXCEPT !.read1 = model]
    /\ ppc' = "proba"
    /\ UNCHANGED <<pipelineVars, disk, trainings, op, tpc, tjob, probe>>

\* probabilities = self.model.predict_proba(X) (line 373): the second read, and
\* the rest of predict
PredictReadProba ==
    /\ ppc = "proba"
    /\ pjob' = [pjob EXCEPT !.read2 = model]
    /\ ppc' = "finish"
    /\ UNCHANGED <<pipelineVars, disk, trainings, op, tpc, tjob, probe>>

PredictFinish ==
    /\ ppc = "finish"
    /\ LET fc == FeatureCols(pjob.e)
           o1 == ModelPredictOutcome(pjob.read1, fc)
           o2 == ModelPredictOutcome(pjob.read2, fc)
           c  == [Named("predict") EXCEPT !.fed = TRUE, !.X = fc, !.xrow = SelectX(pjob.e),
                                          !.used = pjob.read2]
           pr == PredictProba(pjob.read2, SelectX(pjob.e))
       IN  op' = IF o1 # "ok" THEN Raise([c EXCEPT !.used = pjob.read1], o1)
                 ELSE IF o2 # "ok" THEN Raise(c, o2)
                 ELSE Return([c EXCEPT !.proba = pr, !.risk = RiskScore(pr),
                                       !.tier = Tier(RiskScore(pr)),
                                       !.prediction = PredictClass(PredictProba(pjob.read1,
                                                                               SelectX(pjob.e)))],
                             "result")
    /\ ppc' = "idle"
    /\ pjob' = NoJob
    /\ UNCHANGED <<pipelineVars, disk, trainings, tpc, tjob, probe>>

NextConc ==
    \/ TrainBegin
    \/ TrainPrepare
    \/ TrainConstruct
    \/ TrainFit
    \/ TrainMark
    \/ TrainSave
    \/ PredictBegin
    \/ PredictCheck
    \/ PredictPrepare
    \/ PredictReadModel
    \/ PredictReadProba
    \/ PredictFinish

SpecConc == Init /\ [][NextConc]_vars

-----------------------------------------------------------------------------
(* Claims about the pipeline's calls (Spec) *)

PredictEntryPoints == {"predict", "predict_single", "predict_student", "predict_single_student"}

\* C1: feature-skew guard.  Whenever a prediction entry point hands a vector to a
\* fitted classifier, the vector has exactly the columns the classifier was trained
\* on, in the same order (a column missing from the data being present with value 0).
C1_FeatureSkewGuard ==
    (op.name \in PredictEntryPoints /\ op.fed /\ op.used.kind = "fitted")
        => (op.X = op.used.feats /\ Len(op.xrow) = Len(op.used.feats))

\* C4: predict and predict_single on an already-trained pipeline leave the model,
\* the feature-name list, the trained flag and the training timestamp as they were.
C4_PredictReadOnly ==
    [][(is_trained /\ op'.name \in {"predict", "predict_single"})
          => UNCHANGED pipelineVars]_vars

\* C6: a prediction requested while there is neither a resident trained model nor a
\* loadable persisted model raises the model-not-trained error, at every entry point.
\* (No prediction call touches the files or clears the trained flag of a pipeline
\* that has a model file, so the condition after the call is the one before it.)
C6_NotTrainedIsRaised ==
    (op.name \in PredictEntryPoints /\ ~is_trained /\ disk[MODEL_PATH].type # "joblib")
        => (op.outcome = "raise" /\ op.err = "ValueError: Model not trained")

\* the errors train_model raises for a missing input column: the taxonomy's
\* ConfigurationError (the code has no class of that name)
IsConfigurationError(e) ==
    e \in {"ValueError: No risk_label column found in data", "KeyError: gpa_sem2"}

C7_WitnessEmpty ==
    /\ op.name = "train_model" /\ op.outcome = "raise"
    /\ op.label = "ok" /\ op.empty /\ op.err = "fit raised"

\* C8: when save_model fails inside train_model(save=True), train_model does not
\* return a result whose status is "success".
C8_SaveFailureSurfaced ==
    (op.name = "train_model" /\ op.saveret = "False")
        => ~(op.outcome = "return" /\ op.value = "success")

-----------------------------------------------------------------------------
(* Claims about persistence (SpecPersist) *)

\* C9: persistence round trip.  A load_model that directly follows a successful
\* save_model of a trained pipeline to the same path (in the same process or in a
\* new one) leaves the feature-name list and the trained flag equal to the saved ones.
C9_RoundTrip ==
    (op.name = "load_model" /\ op.saved.valid /\ op.saved.is_trained)
        => (feature_names = op.saved.feature_names /\ is_trained = op.saved.is_trained)

-----------------------------------------------------------------------------
(* Claims about scoring (SpecScore) *)

\* C2: the tier is "high" exactly when the risk score is >= 0.70, "medium" exactly
\* when 0.40 <= score < 0.70, "low" exactly when score < 0.40, and never anything else.
C2_TierThresholds ==
    probe.kind = "scored" =>
        /\ probe.tier \in {"low", "medium", "high"}
        /\ probe.tier = "high" <=> probe.risk >= 7000
        /\ probe.tier = "medium" <=> (probe.risk >= 4000 /\ probe.risk < 7000)
        /\ probe.tier = "low" <=> probe.risk < 4000

\* C2 witness: the four boundary scores 0.70, 0.6999, 0.40, 0.3999 have been scored;
\* this one is the row scored exactly 0.70
C2_Witness == probe.kind = "scored" /\ probe.risk = 7000 /\ probe.tier = "high"

C2_WitnessJustBelowHigh == probe.kind = "scored" /\ probe.risk = 6999 /\ probe.tier = "medium"

C2_WitnessMedium == probe.kind = "scored" /\ probe.risk = 4000 /\ probe.tier = "medium"

C2_WitnessJustBelowMedium == probe.kind = "scored" /\ probe.risk = 3999 /\ probe.tier = "low"

C3_WitnessMixed ==
    probe.kind = "scored" /\ probe.p[2] = 6000 /\ probe.p[3] = 2000 /\ probe.risk = 5000

-----------------------------------------------------------------------------
(* Claims about feature selection at training time (SpecEng) *)

IndexIn(seq, x) == CHOOSE i \in 1..Len(seq) : seq[i] = x

\* C10: the recorded feature list is the candidate list restricted to the columns of
\* the engineered table, in candidate order; the selected matrix has those columns in
\* that order, each cell the engineered cell with a missing one replaced by 0.
C10_CanonicalList ==
    probe.kind = "selected" =>
        /\ Range(feature_names) = Range(numeric_features) \cap DOMAIN probe.e
        /\ \A i, j \in 1..Len(feature_names) :
              i < j => IndexIn(numeric_features, feature_names[i])
                         < IndexIn(numeric_features, feature_names[j])
        /\ probe.X = feature_names
        /\ Len(probe.xrow) = Len(feature_names)
        /\ \A i \in 1..Len(feature_names) :
              probe.xrow[i] = IF probe.e[feature_names[i]] = NaN
                              THEN 0 ELSE probe.e[feature_names[i]]

\* C10 witness: a table lacking some candidate columns and holding a missing cell in a
\* candidate column has been selected, the cell becoming 0
C10_Witness ==
    /\ probe.kind = "selected"
    /\ Len(feature_names) > 0
    /\ Len(feature_names) < Len(numeric_features)
    /\ \E i \in 1..Len(feature_names) :
          probe.e[feature_names[i]] = NaN /\ probe.xrow[i] = 0

-----------------------------------------------------------------------------
(* Claims about concurrent retraining (SpecConc) *)

\* C5: a prediction that runs while the pipeline is being retrained reads a complete
\* TrainedModel: every classifier object it reads is a fitted one, and its two reads
\* (predict, predict_proba) see the same object.
C5_CompleteModelObserved ==
    /\ ppc \in {"proba", "finish"} => pjob.read1.kind = "fitted"
    /\ ppc = "finish" => (pjob.read2.kind = "fitted" /\ pjob.read2 = pjob.read1)

-----------------------------------------------------------------------------
(* Repeated predictions against one trained model (predict, lines 352-392):
   probe remembers, per classifier object, what the first prediction of each
   record returned *)

DetTables == { Table(CsvCols, FALSE, "ok") }

DetRows == { Restrict(HighRow, CsvCols), Restrict(LowRow, CsvCols), Restrict(LowRow, MinCols) }

DetSingleRows == { Restrict(HighRow, CsvCols), Restrict(LowRow, MinCols) }

\* the memo so far for the classifier object m
SeenWith(m) == IF probe.kind = "memo" /\ probe.used = m THEN probe.seen ELSE <<>>

\* what the caller of predict / predict_single gets to see of the score;
\* mixed: a record with other columns has been predicted since
Answer(call) ==
    [name |-> call.name, returned |-> call.outcome = "return",
     risk |-> call.risk, tier |-> call.tier, mixed |-> FALSE]

\* the memo entries after a prediction of df
Mixed(seen, df) ==
    [d \in DOMAIN seen |->
        IF DOMAIN d # DOMAIN df THEN [seen[d] EXCEPT !.mixed = TRUE] ELSE seen[d]]

\* the memo after a call on df that ended as call
Remember(call, df) ==
    IF ~call.fed THEN probe
    ELSE [kind |-> "memo", used |-> call.used, df |-> df,
          repeat |-> df \in DOMAIN SeenWith(call.used),
          seen |-> IF df \in DOMAIN SeenWith(call.used)
                   THEN Mixed(SeenWith(call.used), df)
                   ELSE (df :> Answer(call)) @@ Mixed(SeenWith(call.used), df)]

\* the effect of a prediction call on df with result r, remembered
CommitRemembered(r, df) == Commit(r) /\ probe' = Remember(r.call, df)

PredictAgain ==
    /\ \E df \in DetRows :
          CommitRemembered(PredictCall(Current, disk, df, Named("predict")), df)
    /\ UNCHANGED <<disk, trainings, tpc, tjob, ppc, pjob>>

PredictSingleAgain ==
    /\ \E data \in DetSingleRows, explainOk \in BOOLEAN :
          CommitRemembered(PredictSingleCall(Current, disk, data, explainOk,
                                             Named("predict_single")), data)
    /\ UNCHANGED <<disk, trainings, tpc, tjob, ppc, pjob>>

NextDet ==
    \/ TrainModelOn(DetTables)
    \/ PredictAgain
    \/ PredictSingleAgain
    \/ Restart

SpecDet == Init /\ [][NextDet]_vars

-----------------------------------------------------------------------------
(* Claims about repeated predictions (SpecDet) *)

-----------------------------------------------------------------------------
(* Claims about engineer_features (SpecEng) *)

\* the raw columns each derived feature is computed from
DerivedInputs ==
    [gpa_decline          |-> {"gpa_sem1", "gpa_sem3"},
     gpa_sem2_decline     |-> {"gpa_sem1", "gpa_sem2"},
     gpa_sem3_decline     |-> {"gpa_sem2", "gpa_sem3"},
     attendance_critical  |-> {"attendance"},
     attendance_low       |-> {"attendance"},
     lms_very_low         |-> {"lms_logins"},
     campus_engagement    |-> {"facility_access", "library_visits"},
     campus_isolated      |-> {"facility_access", "library_visits"},
     high_after_hours     |-> {"after_hours_wifi"},
     low_assignments      |-> {"assignment_submissions"}]

\* the table handed to engineer_features has raw columns only
RawOnly(df) == DOMAIN df \subseteq RawFeatureCols \cup {"student_id"}

\* C12: for every subset of the raw columns, engineer_features completes without
\* raising and produces each derived feature exactly when all the raw columns it is
\* computed from are present.
C12_EngineerTotal ==
    (probe.kind \in {"raised", "engineered"} /\ RawOnly(probe.raw))
    => /\ probe.kind = "engineered"
       /\ \A f \in DOMAIN DerivedInputs :
             Has(probe.e, f) <=> DerivedInputs[f] \subseteq DOMAIN probe.raw

\* C13: with facility_access present and library_visits absent, the engineered row has
\* campus_engagement equal to facility_access (a missing value counting as 0) and
\* campus_isolated = 1 exactly when that value is below 3.
C13_CampusWithoutLibrary ==
    (probe.kind = "engineered" /\ Has(probe.raw, "facility_access")
        /\ ~Has(probe.raw, "library_visits"))
    => /\ Has(probe.e, "campus_engagement")
       /\ probe.e["campus_engagement"] = FillNa(probe.raw, "facility_access")["facility_access"]
       /\ Has(probe.e, "campus_isolated")
       /\ probe.e["campus_isolated"] = Flag(probe.e["campus_engagement"] < 3)

\* the value of column c of df is there: the column exists and the cell is not missing
Present(df, c) == Has(df, c) /\ df[c] # NaN

\* C14: gpa_decline is the semester-1 GPA minus the semester-3 GPA when both values are
\* present, and 0 when either is absent (a missing value or a missing column).
C14_GpaDecline ==
    probe.kind = "engineered"
    => /\ Has(probe.e, "gpa_decline")
       /\ probe.e["gpa_decline"] =
             IF Present(probe.raw, "gpa_sem1") /\ Present(probe.raw, "gpa_sem3")
             THEN probe.raw["gpa_sem1"] - probe.raw["gpa_sem3"]
             ELSE 0

FlagWeights ==
    [attendance_critical |-> 3, lms_very_low |-> 2, campus_isolated |-> 2,
     high_after_hours |-> 1, low_assignments |-> 1]

FlagsIn(e) == DOMAIN FlagWeights \cap DOMAIN e

Weighted(e, f) == IF Has(e, f) THEN FlagWeights[f] * e[f] ELSE 0

WeightedSum(e) ==
    Weighted(e, "attendance_critical") + Weighted(e, "lms_very_low")
    + Weighted(e, "campus_isolated") + Weighted(e, "high_after_hours")
    + Weighted(e, "low_assignments")

\* C15: behavioral_risk_score is the sum of weight*flag over the flags computed for the
\* table divided by the number of those flags (the score is held times BrsScale), and
\* the column is absent when no flag was computed.
C15_BehavioralScore ==
    (probe.kind = "engineered" /\ RawOnly(probe.raw))
    => IF FlagsIn(probe.e) = {}
       THEN ~Has(probe.e, "behavioral_risk_score")
       ELSE /\ Has(probe.e, "behavioral_risk_score")
            /\ probe.e["behavioral_risk_score"] * Cardinality(FlagsIn(probe.e))
                  = WeightedSum(probe.e) * BrsScale

\* C15 witness: a row with some but not all flags computed, one of them set, so that
\* the divisor is neither 1 nor 5
C15_Witness ==
    /\ probe.kind = "engineered" /\ RawOnly(probe.raw)
    /\ Cardinality(FlagsIn(probe.e)) \in {2, 3}
    /\ Has(probe.e, "behavioral_risk_score")
    /\ probe.e["behavioral_risk_score"] > 0
    /\ WeightedSum(probe.e) % Cardinality(FlagsIn(probe.e)) # 0

-----------------------------------------------------------------------------
(* engineer_features on rows around the flag thresholds (lines 152-198) *)

FlagCols == {"attendance", "lms_logins", "after_hours_wifi", "assignment_submissions"}

FlagRows ==
    { [student_id |-> "N00430000", attendance |-> a, lms_logins |-> l,
       after_hours_wifi |-> w, assignment_submissions |-> s] :
        a \in {NaN, 0, 20, 49, 50, 69, 70, 80, 100}, l \in {NaN, 0, 5, 6, 10},
        w \in {NaN, 10, 11}, s \in {NaN, 4, 5} }

FlagInputs == { Restrict(r, cols \cup {"student_id"}) : r \in FlagRows, cols \in SUBSET FlagCols }

InitFlags ==
    /\ model = NoModel
    /\ feature_names = <<>>
    /\ is_trained = FALSE
    /\ last_trained = 0
    /\ disk = [f \in Files |-> Absent]
    /\ trainings = 0
    /\ op = NoCall
    /\ tpc = "idle" /\ tjob = NoJob
    /\ ppc = "idle" /\ pjob = NoJob
    /\ probe \in {[kind |-> "raw", df |-> df] : df \in FlagInputs}

\* the same record with its attendance lowered from 80 to 20, engineered as well
EngineerLowered ==
    /\ probe.kind = "engineered"
    /\ Has(probe.df, "attendance") /\ probe.df["attendance"] = 80
    /\ probe' = [kind |-> "lowered", raw |-> probe.raw, df |-> probe.df, e |-> probe.e,
                 e20 |-> engineer_features([probe.df EXCEPT !["attendance"] = 20])]
    /\ UNCHANGED <<pipelineVars, disk, trainings, op, tpc, tjob, ppc, pjob>>

NextFlags == EngineerStep \/ EngineerLowered

SpecFlags == InitFlags /\ [][NextFlags]_vars

-----------------------------------------------------------------------------
(* Claims about the flags (SpecFlags) *)

\* the cell of column c with a missing value counted as 0
Filled(df, c) == IF df[c] = NaN THEN 0 ELSE df[c]

\* the engineered row e has flag f, and it is 1 exactly when b holds, else 0
FlagIs(e, f, b) == Has(e, f) /\ e[f] \in {0, 1} /\ (e[f] = 1 <=> b)

\* C16: each flag equals its threshold predicate on the input value, a missing value
\* counting as 0: attendance_critical iff attendance < 50; attendance_low iff
\* 50 <= attendance < 70 (never both); lms_very_low iff logins <= 5; high_after_hours
\* iff after-hours sessions > 10; low_assignments iff submissions < 5.
C16_FlagThresholds ==
    probe.kind = "engineered"
    => /\ Has(probe.raw, "attendance") =>
            /\ FlagIs(probe.e, "attendance_critical", Filled(probe.raw, "attendance") < 50)
            /\ FlagIs(probe.e, "attendance_low",
                      Filled(probe.raw, "attendance") >= 50
                        /\ Filled(probe.raw, "attendance") < 70)
            /\ ~(probe.e["attendance_critical"] = 1 /\ probe.e["attendance_low"] = 1)
       /\ Has(probe.raw, "lms_logins") =>
            FlagIs(probe.e, "lms_very_low", Filled(probe.raw, "lms_logins") <= 5)
       /\ Has(probe.raw, "after_hours_wifi") =>
            FlagIs(probe.e, "high_after_hours", Filled(probe.raw, "after_hours_wifi") > 10)
       /\ Has(probe.raw, "assignment_submissions") =>
            FlagIs(probe.e, "low_assignments",
                   Filled(probe.raw, "assignment_submissions") < 5)

\* C16 witness: a row on the boundaries (attendance 50, logins 5, after-hours 10,
\* submissions 5) has been engineered
C16_Witness ==
    /\ probe.kind = "engineered"
    /\ DOMAIN probe.raw = FlagCols \cup {"student_id"}
    /\ probe.raw["attendance"] = 50 /\ probe.e["attendance_low"] = 1
    /\ probe.e["attendance_critical"] = 0
    /\ probe.raw["lms_logins"] = 5 /\ probe.e["lms_very_low"] = 1
    /\ probe.raw["after_hours_wifi"] = 10 /\ probe.e["high_after_hours"] = 0
    /\ probe.raw["assignment_submissions"] = 5 /\ probe.e["low_assignments"] = 0

\* C16 witness: a row with every value missing gets the flags of the value 0
C16_WitnessMissing ==
    /\ probe.kind = "engineered"
    /\ DOMAIN probe.raw = FlagCols \cup {"student_id"}
    /\ \A c \in FlagCols : probe.raw[c] = NaN
    /\ probe.e["attendance_critical"] = 1 /\ probe.e["lms_very_low"] = 1
    /\ probe.e["high_after_hours"] = 0 /\ probe.e["low_assignments"] = 1

\* C17: with every other input fixed, lowering attendance from 80 to 20 decreases
\* neither attendance_critical nor attendance_low nor behavioral_risk_score.
C17_AttendanceMonotone ==
    probe.kind = "lowered"
    => /\ probe.e20["attendance_critical"] >= probe.e["attendance_critical"]
       /\ probe.e20["attendance_low"] >= probe.e["attendance_low"]
       /\ Has(probe.e20, "behavioral_risk_score") /\ Has(probe.e, "behavioral_risk_score")
       /\ probe.e20["behavioral_risk_score"] >= probe.e["behavioral_risk_score"]

\* C17 witness: a record with other flags set has had its attendance lowered, and its
\* score went up
C17_Witness ==
    /\ probe.kind = "lowered"
    /\ Cardinality(FlagsIn(probe.e)) > 1
    /\ probe.e["behavioral_risk_score"] > 0
    /\ probe.e20["behavioral_risk_score"] > probe.e["behavioral_risk_score"]

-----------------------------------------------------------------------------
(* generate_shap_explanation and _format_feature_name (lines 439-511) *)

MaxFeatures == 7

TopK == 6

\* feature_labels, the lookup table of _format_feature_name
feature_labels ==
    [gpa_decline            |-> "GPA decline over semesters",
     gpa_sem1               |-> "First semester GPA",
     gpa_sem2               |-> "Second semester GPA",
     gpa_sem3               |-> "Third semester GPA",
     attendance             |-> "Attendance percentage",
     attendance_critical    |-> "Critical attendance level",
     lms_logins             |-> "LMS logins this week",
     lms_very_low           |-> "Very low LMS engagement",
     facility_access        |-> "Campus facility access",
     library_visits         |-> "Library visits",
     campus_engagement      |-> "Overall campus engagement",
     after_hours_wifi       |-> "After-hours WiFi usage",
     assignment_submissions |-> "Assignment submissions",
     behavioral_risk_score  |-> "Behavioral risk indicators"]

\* a label: its text, with the numbers formatted into it in order
Label(text, shown) == [text |-> text, shown |-> shown]

Max(a, b) == IF a >= b THEN a ELSE b

Min(a, b) == IF a <= b THEN a ELSE b

\* "if data and feature in data": data is None (<<>>) or a dict
InData(feature, data) == data # <<>> /\ feature \in DOMAIN data

\* int(value) / abs(value) on a missing value (None) raises TypeError
FormatRaises(feature, data) ==
    /\ InData(feature, data)
    /\ feature \in {"gpa_decline", "attendance", "lms_logins", "facility_access"}
    /\ data[feature] = NaN

\* _format_feature_name(feature, data)
FormatFeatureName(feature, data) ==
    IF InData(feature, data) /\ feature = "gpa_decline"
    THEN Label("GPA decline (-{:.1f} pts)", <<Abs(data[feature])>>)
    ELSE IF InData(feature, data) /\ feature = "attendance"
    THEN Label("Attendance at {}%", <<data[feature]>>)
    ELSE IF InData(feature, data) /\ feature = "lms_logins"
    THEN Label("LMS logins: {} (-{:.0f}%)",
               <<data[feature], Max(0, ((20 - data[feature]) * 100) \div 20)>>)
    ELSE IF InData(feature, data) /\ feature = "facility_access"
    THEN (IF data[feature] = 0
          THEN Label("Zero facility access this month", <<>>)
          ELSE Label("Facility access: {} visits", <<data[feature]>>))
    ELSE IF feature \in DOMAIN feature_labels THEN Label(feature_labels[feature], <<>>)
    ELSE Label(feature, <<>>)

\* the list explanations before it is sorted: one entry per name of self.feature_names
\* that has a contribution in sv = shap_values[0]; X is the row the caller passed
Explanations(fn, sv, X, data) ==
    [i \in 1..Min(Len(fn), Len(sv)) |->
        [feature       |-> FormatFeatureName(fn[i], data),
         value         |-> sv[i],
         dir           |-> IF sv[i] > 0 THEN 1 ELSE -1,
         feature_value |-> Get(X, fn[i], 0)]]

RECURSIVE InsertBeforeTies(_, _)
InsertBeforeTies(x, s) ==
    IF s = <<>> THEN <<x>>
    ELSE IF Abs(Head(s).value) > Abs(x.value)
    THEN <<Head(s)>> \o InsertBeforeTies(x, Tail(s))
    ELSE <<x>> \o s

RECURSIVE ReversedSortByAbs(_)
ReversedSortByAbs(s) ==
    IF s = <<>> THEN <<>>
    ELSE InsertBeforeTies(s[Len(s)], ReversedSortByAbs(SubSeq(s, 1, Len(s) - 1)))

RECURSIVE InsertByAbs(_, _)
\* x put behind every entry of s whose absolute value is at least its own
InsertByAbs(x, s) ==
    IF s = <<>> THEN <<x>>
    ELSE IF Abs(Head(s).value) >= Abs(x.value)
    THEN <<Head(s)>> \o InsertByAbs(x, Tail(s))
    ELSE <<x>> \o s

RECURSIVE SortByAbs(_)
\* explanations.sort(key=lambda x: abs(x['value']), reverse=True): list.sort is
\* stable, and with reverse=True equal keys still keep their original order
SortByAbs(s) ==
    IF s = <<>> THEN <<>>
    ELSE InsertByAbs(s[Len(s)], SortByAbs(SubSeq(s, 1, Len(s) - 1)))

\* explanations[:6]
Top(s) == SubSeq(s, 1, Min(TopK, Len(s)))

\* what generate_shap_explanation(X, original_data) returns when shap_values[0] is sv
generate_shap_explanation(ps, sv, X, data) ==
    IF ~ps.is_trained THEN <<>>
    ELSE Top(SortByAbs(Explanations(ps.feature_names, sv, X, data)))

\* some label of the loop raises
ExplanationRaises(ps, sv, data) ==
    /\ ps.is_trained
    /\ \E i \in 1..Min(Len(ps.feature_names), Len(sv)) : FormatRaises(ps.feature_names[i], data)

-----------------------------------------------------------------------------
(* Explaining one prediction: the pipeline is trained on the columns of the record,
   and the explainer returns the contributions sv for its features *)

Contributions == {-1, 1, 2}

\* the first n names of the candidate list
FirstFeatures(n) == SubSeq(numeric_features, 1, n)

\* contributions whose absolute values cycle 3, 2, 1, 0, 1, 2, 3 starting at k
Pattern(n, k) == [i \in 1..n |-> ((i + k) % 7) - 3]

ZeroFacilityRow == [student_id |-> "N00440000", attendance |-> 70, facility_access |-> 0]

ExplainRows ==
    { Restrict(HighRow, CsvCols), Restrict(LowRow, ServeCols), Restrict(LowRow, MinCols),
      ZeroFacilityRow, Restrict(MissingRow, MinCols) }

\* a pipeline trained on the feature list fn
TrainedOn(fn) ==
    [model |-> Fitted(1, fn, Len(fn)), feature_names |-> fn, is_trained |-> TRUE,
     last_trained |-> 1]

\* the calls considered: the pipeline, the record passed as original_data (<<>>: None)
\* and as X, and the contributions
ExplainInputs ==
    { [ps |-> TrainedOn(FirstFeatures(Len(sv))), data |-> <<>>, sv |-> sv] :
        sv \in UNION { [1..n -> Contributions] : n \in 0..MaxFeatures } }
    \cup
    { [ps |-> TrainedOn(FeatureCols(engineer_features(d))), data |-> d,
       sv |-> Pattern(Len(FeatureCols(engineer_features(d))), k)] :
        d \in ExplainRows, k \in 0..6 }
    \cup
    { [ps |-> Fresh, data |-> <<>>, sv |-> <<>>] }

InitExplain ==
    /\ \E inp \in ExplainInputs :
          /\ model = inp.ps.model
          /\ feature_names = inp.ps.feature_names
          /\ is_trained = inp.ps.is_trained
          /\ last_trained = inp.ps.last_trained
          /\ probe = [kind |-> "shap", data |-> inp.data, sv |-> inp.sv]
    /\ disk = [f \in Files |-> Absent]
    /\ trainings = 0
    /\ op = NoCall
    /\ tpc = "idle" /\ tjob = NoJob
    /\ ppc = "idle" /\ pjob = NoJob

\* generate_shap_explanation(X, original_data) with X and original_data the record
GenerateShapExplanation ==
    /\ probe.kind = "shap"
    /\ IF ExplanationRaises(Current, probe.sv, probe.data)
       THEN /\ probe' = [kind |-> "raised", data |-> probe.data, sv |-> probe.sv]
            /\ op' = Raise(Named("generate_shap_explanation"), "TypeError")
       ELSE /\ probe' = [kind |-> "explained", data |-> probe.data, sv |-> probe.sv,
                         unsorted |-> Explanations(feature_names, probe.sv,
                                                   probe.data, probe.data),
                         result |-> generate_shap_explanation(Current, probe.sv,
                                                              probe.data, probe.data)]
            /\ op' = Return(Named("generate_shap_explanation"), "list")
    /\ UNCHANGED <<pipelineVars, disk, trainings, tpc, tjob, ppc, pjob>>

\* shap.TreeExplainer(self.model).shap_values(X) raises
ShapValuesRaises ==
    /\ probe.kind = "shap"
    /\ is_trained
    /\ probe' = [kind |-> "raised", data |-> probe.data, sv |-> probe.sv]
    /\ op' = Raise(Named("generate_shap_explanation"), "shap_values raised")
    /\ UNCHANGED <<pipelineVars, disk, trainings, tpc, tjob, ppc, pjob>>

NextExplain == GenerateShapExplanation \/ ShapValuesRaises

SpecExplain == InitExplain /\ [][NextExplain]_vars

-----------------------------------------------------------------------------
(* Claims about the explanation (SpecExplain) *)

\* the place of the entry x in the list u
PlaceIn(u, x) == CHOOSE i \in 1..Len(u) : u[i] = x

C19_WitnessShort ==
    /\ probe.kind = "explained" /\ is_trained
    /\ Len(feature_names) = 3 /\ Len(probe.result) = 3
    /\ probe.result # probe.unsorted

ValueLabelled == {"gpa_decline", "attendance", "lms_logins", "facility_access"}

\* the instance's value of feature f: the engineered cell
ActualValue(data, f) == engineer_features(data)[f]

\* C20: in the explanation of a record, every entry for gpa_decline, attendance,
\* lms_logins or facility_access has a label that embeds the record's value of that
\* feature; every other feature of the lookup table has its fixed label; a feature
\* not in the table keeps its name.
C20_Labels ==
    (probe.kind = "explained" /\ probe.data # <<>>)
    => \A i \in 1..Len(probe.unsorted) :
          (\E k \in 1..Len(probe.result) : probe.result[k] = probe.unsorted[i])
          => IF feature_names[i] \in ValueLabelled
             THEN \/ /\ probe.unsorted[i].feature.shown # <<>>
                     /\ probe.unsorted[i].feature.shown[1]
                           = Abs(ActualValue(probe.data, feature_names[i]))
                  \/ /\ ActualValue(probe.data, feature_names[i]) = 0
                     /\ probe.unsorted[i].feature.text = "Zero facility access this month"
             ELSE IF feature_names[i] \in DOMAIN feature_labels
             THEN probe.unsorted[i].feature = Label(feature_labels[feature_names[i]], <<>>)
             ELSE probe.unsorted[i].feature = Label(feature_names[i], <<>>)

-----------------------------------------------------------------------------
(* generate_intervention and generate_explanation_text (lines 517-565) *)

\* the dict interventions
interventions ==
    [high   |-> << "URGENT: Same-day counsellor contact required",
                   "Emergency wellness protocol activation",
                   "Faculty and Dean of Students notification",
                   "Safety assessment - do not leave uncontacted" >>,
     medium |-> << "Proactive welfare check by personal tutor",
                   "Academic support referral",
                   "Peer mentoring programme enrolment" >>,
     low    |-> << "Standard wellness newsletter",
                   "Campus mental health awareness resources" >>]

AttributionAwareIntervention(tier, shap_values) ==
    IF shap_values = <<>> THEN interventions[tier]
    ELSE interventions[tier] \o <<shap_values[1].feature.text>>

\* generate_intervention(tier, shap_values): interventions.get(tier, interventions['low'])
generate_intervention(tier, shap_values) ==
    IF tier \in DOMAIN interventions THEN interventions[tier] ELSE interventions["low"]

tier_descriptions ==
    [high |-> "critical risk profile", medium |-> "moderate risk profile",
     low |-> "low risk profile"]

\* generate_explanation_text(data, shap_values, tier), as the pieces it concatenates
generate_explanation_text(data, shap_values, tier) ==
    IF tier = "high"
    THEN << Get(data, "name", "This student"), " shows a ", tier_descriptions[tier], ". ",
            "Severe academic decline, near-total withdrawal from campus ",
            "and digital engagement indicate an acute crisis state. ",
            "Urgent intervention is required." >>
    ELSE IF tier = "medium"
    THEN << Get(data, "name", "This student"), " shows a ", tier_descriptions[tier], " ",
            "characterised by gradual academic decline and reduced social engagement. ",
            "Proactive outreach and academic support referral are recommended." >>
    ELSE << Get(data, "name", "This student"), " presents a ", tier_descriptions[tier], " ",
            "with strong academic engagement and consistent campus participation. ",
            "No immediate action required. Standard wellness communications applicable." >>

\* predict_single, lines 420-433: the narrative part of the result
Narrative(data, tier, shap) ==
    [tier |-> tier, shap |-> shap,
     intervention |-> generate_intervention(tier, shap),
     explanation |-> generate_explanation_text(data, shap, tier)]

\* attribution rankings as generate_shap_explanation returns them
Rankings ==
    { Top(SortByAbs(Explanations(FirstFeatures(Len(sv)), sv, <<>>, <<>>))) :
        sv \in UNION { [1..n -> Contributions] : n \in 0..2 } }

NarrativeRecords ==
    { Restrict(HighRow, {"student_id", "name", "attendance"}),
      Restrict(LowRow, {"student_id", "name", "attendance"}),
      Restrict(LowRow, {"student_id", "attendance"}) }

InitNarrative ==
    /\ model = NoModel
    /\ feature_names = <<>>
    /\ is_trained = FALSE
    /\ last_trained = 0
    /\ disk = [f \in Files |-> Absent]
    /\ trainings = 0
    /\ op = NoCall
    /\ tpc = "idle" /\ tjob = NoJob
    /\ ppc = "idle" /\ pjob = NoJob
    /\ probe \in { [kind |-> "ranked", data |-> d, tier |-> t, shap1 |-> a, shap2 |-> b] :
                     d \in NarrativeRecords, t \in {"low", "medium", "high"},
                     a \in Rankings, b \in Rankings }

\* two predict_single results for the record, one per ranking
Narrate ==
    /\ probe.kind = "ranked"
    /\ probe' = [kind |-> "narrated", data |-> probe.data, tier |-> probe.tier,
                 r1 |-> Narrative(probe.data, probe.tier, probe.shap1),
                 r2 |-> Narrative(probe.data, probe.tier, probe.shap2)]
    /\ UNCHANGED <<pipelineVars, disk, trainings, op, tpc, tjob, ppc, pjob>>

NextNarrative == Narrate

SpecNarrative == InitNarrative /\ [][NextNarrative]_vars

\* C21: two results with the same tier and student name but different attribution
\* rankings have the same intervention list and the same explanation text, and the
\* intervention list is the tier's fixed list: 4 actions for high, 3 for medium, 2 for low.
C21_NarrativeIgnoresAttribution ==
    probe.kind = "narrated"
    => /\ probe.r1.intervention = probe.r2.intervention
       /\ probe.r1.explanation = probe.r2.explanation
       /\ probe.r1.intervention = interventions[probe.tier]
       /\ Len(probe.r1.intervention) =
             (IF probe.tier = "high" THEN 4 ELSE IF probe.tier = "medium" THEN 3 ELSE 2)

\* C21 witness: a high-tier record narrated for two different non-empty rankings
C21_Witness ==
    /\ probe.kind = "narrated" /\ probe.tier = "high"
    /\ probe.r1.shap # probe.r2.shap
    /\ probe.r1.shap # <<>> /\ probe.r2.shap # <<>>
    /\ Len(probe.r1.intervention) = 4

-----------------------------------------------------------------------------
(* The serving layer: POST /pipeline/train and POST /students/batch *)

\* server.py STUDENTS, two of its records
STUDENTS ==
    << [id |-> "N00411234", name |-> "Tinashe Moyo", programme |-> "BSc Computer Science",
        year |-> 3, risk |-> 87, tier |-> "high", gpa |-> <<36, 32, 24>>, attendance |-> 48,
        lmsLogins |-> 3, facilityAccess |-> 1],
       [id |-> "N00415678", name |-> "Rudo Ncube", programme |-> "BSc Informatics",
        year |-> 2, risk |-> 12, tier |-> "low", gpa |-> <<35, 36, 37>>, attendance |-> 88,
        lmsLogins |-> 27, facilityAccess |-> 14] >>

\* what pipeline.load_data() finds in data/students.csv (no file: an empty frame)
ServeTables ==
    { Table(CsvCols, FALSE, "ok"), Table(ServeCols, FALSE, "ok"),
      Table(CsvCols, FALSE, "none"), Table({}, TRUE, "none") }

\* manager.broadcast({"type": type, ...}) appended to the messages of the request
Broadcast(sent, type) == Append(sent, type)

\* what a request did: its response, the train_model calls that returned, the
\* status of the batch result, and the notifications it broadcast
Served(endpoint, http, trained, batch, sent) ==
    [kind |-> "served", endpoint |-> endpoint, http |-> http, trained |-> trained,
     batch |-> batch, sent |-> sent]

\* POST /pipeline/train, lines 516-521, on the result r of train_model
TrainResponse(r) ==
    IF r.call.outcome = "raise"
    THEN Served("/pipeline/train", 500, 0, "none", <<>>)
    ELSE Served("/pipeline/train", 200, 1, "none", Broadcast(<<>>, "model_trained"))

\* POST /pipeline/train
TrainEndpoint ==
    /\ trainings < MaxTrainings
    /\ \E t \in ServeTables, fault \in SaveFaults, shapOk \in BOOLEAN :
          IF t.empty
          THEN /\ probe' = Served("/pipeline/train", 500, 0, "none", <<>>)
               /\ op' = Raise(Named("POST /pipeline/train"), "HTTPException 400")
               /\ UNCHANGED <<pipelineVars, disk, trainings>>
          ELSE LET r == TrainModelCall(Current, disk, t, TRUE, trainings + 1, fault, shapOk,
                                       [Named("train_model") EXCEPT !.label = t.label])
               IN  /\ CommitTraining(r)
                   /\ probe' = TrainResponse(r)
    /\ UNCHANGED <<tpc, tjob, ppc, pjob>>

RECURSIVE PredictEach(_, _, _, _, _, _)
\* predict_all_students, lines 104-129: the students from position i on; failAt is
\* the position whose explanation raises (0: none); b is the result so far
PredictEach(b, d, students, failAt, i, r) ==
    IF r.call.outcome = "raise" THEN [b EXCEPT !.ps = r.ps, !.status = "error"]
    ELSE IF i > Len(students) THEN [b EXCEPT !.ps = r.ps, !.status = "success"]
    ELSE PredictEach(b, d, students, failAt, i + 1,
                     PredictSingleCall(r.ps, d, ToMlFormat(students[i]), failAt # i,
                                       Named("predict_single")))

\* predict_all_students, lines 95-99, on the result r of its train_model call
PredictAfterTraining(r, students, failAt) ==
    IF r.call.outcome = "raise"
    THEN [ps |-> r.ps, d |-> r.d, started |-> r.started, trained |-> 0, status |-> "error"]
    ELSE PredictEach([ps |-> r.ps, d |-> r.d, started |-> r.started, trained |-> 1,
                      status |-> "success"],
                     r.d, students, failAt, 1, [ps |-> r.ps, call |-> NoCall])

\* predict_all_students after "if not pipeline.is_trained: pipeline.load_model()"
PredictAllLoaded(ps1, d, students, t, g, fault, shapOk, failAt) ==
    IF ~ps1.is_trained /\ ~t.empty
    THEN PredictAfterTraining(TrainModelCall(ps1, d, t, TRUE, g, fault, shapOk,
                                             [Named("train_model") EXCEPT !.label = t.label]),
                              students, failAt)
    ELSE PredictEach([ps |-> ps1, d |-> d, started |-> FALSE, trained |-> 0,
                      status |-> "success"],
                     d, students, failAt, 1, [ps |-> ps1, call |-> NoCall])

\* DataService.batch_update_predictions(students): the status of its result, with
\* the pipeline fields and files afterwards
batch_update_predictions(ps0, d, students, t, g, fault, shapOk, failAt) ==
    PredictAllLoaded(IF ps0.is_trained THEN ps0 ELSE LoadModel(ps0, d, <<>>).ps,
                     d, students, t, g, fault, shapOk, failAt)

\* POST /students/batch, lines 575-589, on the result b of batch_update_predictions
BatchResponse(b) ==
    IF b.status = "success"
    THEN Served("/students/batch", 200, b.trained, b.status,
                Broadcast(<<>>, "batch_predictions_complete"))
    ELSE Served("/students/batch", 500, b.trained, b.status, <<>>)

\* POST /students/batch
BatchEndpoint ==
    /\ trainings < MaxTrainings
    /\ \E t \in ServeTables, fault \in SaveFaults, shapOk \in BOOLEAN,
          failAt \in 0..Len(STUDENTS) :
          LET b == batch_update_predictions(Current, disk, STUDENTS, t, trainings + 1,
                                            fault, shapOk, failAt)
          IN  /\ Install(b.ps)
              /\ disk' = b.d
              /\ trainings' = IF b.started THEN trainings + 1 ELSE trainings
              /\ op' = IF b.status = "success"
                       THEN Return(Named("POST /students/batch"), "success")
                       ELSE Raise(Named("POST /students/batch"), "HTTPException 500")
              /\ probe' = BatchResponse(b)
    /\ UNCHANGED <<tpc, tjob, ppc, pjob>>

\* the service is restarted; the files stay
RestartServer ==
    /\ Install(Fresh)
    /\ op' = Named("restart")
    /\ probe' = NoProbe
    /\ UNCHANGED <<disk, trainings, tpc, tjob, ppc, pjob>>

NextServe == TrainEndpoint \/ BatchEndpoint \/ RestartServer

SpecServe == Init /\ [][NextServe]_vars

\* the number of notifications of one type among those a request broadcast
Count(sent, type) == Len(FilterSeq(sent, {type}))

\* C22: a 'model_trained' notification is broadcast only after train_model returned, a
\* 'batch_predictions_complete' notification only after a batch result with status
\* success; a failed training or batch emits none and every successful one exactly one.
C22_NotificationPerSuccess ==
    probe.kind = "served"
    => /\ Count(probe.sent, "model_trained") = probe.trained
       /\ Count(probe.sent, "batch_predictions_complete")
             = (IF probe.batch = "success" THEN 1 ELSE 0)

\* C24: in predict_single the row handed to the explainer is the engineered, canonically
\* selected feature row from which the risk score was computed, with exactly the canonical
\* feature columns, and not the raw input record.
C24_ExplainerGetsEngineeredRow ==
    (op.name = "predict_single" /\ op.explained = "shap")
    => /\ DOMAIN op.explainX = Range(op.X)
       /\ \A i \in 1..Len(op.X) : op.explainX[op.X[i]] = op.xrow[i]

\* C25: after any sequence of train_model, predict, predict_single, save_model and
\* load_model calls, the feature-name list in the persisted sidecar equals, in content
\* and order, the feature list the persisted model was trained on.
C25_SidecarMatchesModel ==
    \A p \in PathArgs :
        (disk[ResolvePath(p)].type = "joblib"
            /\ disk[MetadataPath(ResolvePath(p))].type = "json")
        => JsonFeatureNames(disk[MetadataPath(ResolvePath(p))].meta)
              = disk[ResolvePath(p)].model.feats

\* C26: retraining is all-or-nothing: when train_model raises at any step (missing target
\* column, fitting failure, failure of the attribution analysis after fitting), the
\* resident model, feature-name list, trained flag, training timestamp and the persisted
\* files are exactly as before the call.
C26_TrainAllOrNothing ==
    [][(op'.name = "train_model" /\ op'.outcome = "raise")
          => UNCHANGED <<model, feature_names, is_trained, last_trained, disk>>]_vars

\* C27: load_model is all-or-nothing: it returns True having installed the persisted model
\* with its persisted feature-name list, timestamp and trained flag, so that the pipeline
\* is trained, or it returns False having changed none of the four fields, also when the
\* model file loads but the sidecar is missing or unreadable.
C27_LoadAllOrNothing ==
    [][op'.name = "load_model"
          => IF op'.value = "True"
             THEN /\ model' = disk[ResolvePath(op'.path)].model
                  /\ disk[MetadataPath(ResolvePath(op'.path))].type = "json"
                  /\ feature_names'
                        = JsonFeatureNames(disk[MetadataPath(ResolvePath(op'.path))].meta)
                  /\ last_trained'
                        = JsonLastTrained(disk[MetadataPath(ResolvePath(op'.path))].meta)
                  /\ is_trained'
                  /\ is_trained'
                        = JsonIsTrained(disk[MetadataPath(ResolvePath(op'.path))].meta)
             ELSE UNCHANGED <<model, feature_names, is_trained, last_trained>>]_vars

\* C28: the tier and the raw predicted class never differ by two levels: when the raw
\* class is 'high' (P(high) is the largest of the three probabilities) the tier is not
\* 'low', and when the raw class is 'low' (P(low) is the largest) the tier is not 'high'.
C28_TierWithinOneLevel ==
    probe.kind = "scored"
    => /\ probe.prediction = "high" => probe.tier # "low"
       /\ probe.prediction = "low" => probe.tier # "high"
       /\ (probe.p[3] >= probe.p[1] /\ probe.p[3] >= probe.p[2]) => probe.tier # "low"
       /\ (probe.p[1] >= probe.p[2] /\ probe.p[1] >= probe.p[3]) => probe.tier # "high"

\* C28 witness: P(high) = 0.3336 is the largest, the raw class is 'high', the tier 'medium'
C28_Witness ==
    /\ probe.kind = "scored" /\ probe.prediction = "high"
    /\ probe.p[3] = 3336 /\ probe.p[2] = 3332
    /\ probe.tier = "medium"

\* C28 witness: P(low) = P(high) = 0.5, the raw class is 'low', the tier 'medium'
C28_WitnessLow ==
    /\ probe.kind = "scored" /\ probe.prediction = "low"
    /\ probe.p[1] = 5000 /\ probe.p[3] = 5000
    /\ probe.tier = "medium"

-----------------------------------------------------------------------------
(* ConnectionManager: the WebSocket connections and broadcast over them *)

\* the WebSocket objects of the clients
Sockets == {"ws1", "ws2", "ws3"}

RECURSIVE ListRemove(_, _)
\* list.remove(x): without the first occurrence of x
ListRemove(s, x) ==
    IF s = <<>> THEN <<>>
    ELSE IF Head(s) = x THEN Tail(s)
    ELSE <<Head(s)>> \o ListRemove(Tail(s), x)

\* ConnectionManager.disconnect
disconnect(active_connections, websocket) ==
    IF websocket \in Range(active_connections)
    THEN ListRemove(active_connections, websocket)
    ELSE active_connections

\* the manager: its list, the sockets whose send_json raises, and the running
\* broadcast: the list when it started, the list iterator's index it, the sockets it
\* called send_json on, and those their endpoint disconnected meanwhile
InitBroadcast ==
    /\ model = NoModel
    /\ feature_names = <<>>
    /\ is_trained = FALSE
    /\ last_trained = 0
    /\ disk = [f \in Files |-> Absent]
    /\ trainings = 0
    /\ op = NoCall
    /\ tpc = "idle" /\ tjob = NoJob
    /\ ppc = "idle" /\ pjob = NoJob
    /\ probe = [kind |-> "manager", active_connections |-> <<>>, broken |-> {},
                phase |-> "idle", start |-> <<>>, it |-> 0, tried |-> {}, gone |-> {}]

ManagerStep(p) ==
    /\ probe' = p
    /\ UNCHANGED <<pipelineVars, disk, trainings, op, tpc, tjob, ppc, pjob>>

\* websocket_endpoint, line 478: manager.connect(websocket)
Connect ==
    \E ws \in Sockets :
        /\ ws \notin Range(probe.active_connections)
        /\ ws \notin probe.broken
        /\ ws \notin Range(probe.start)
        /\ ManagerStep([probe EXCEPT !.active_connections = Append(@, ws)])

\* the client goes away without a close frame: send_json on its socket raises from now on
ClientLost ==
    \E ws \in Range(probe.active_connections) \ probe.broken :
        ManagerStep([probe EXCEPT !.broken = @ \cup {ws}])

\* websocket_endpoint, lines 490-491: WebSocketDisconnect, manager.disconnect(websocket)
EndpointDisconnect ==
    \E ws \in Range(probe.active_connections) \ probe.broken :
        ManagerStep([probe EXCEPT
                       !.active_connections = disconnect(@, ws),
                       !.gone = IF probe.phase = "iterating" THEN @ \cup {ws} ELSE @])

\* broadcast, line 195: the for statement takes an iterator of the list
BroadcastBegin ==
    /\ probe.phase # "iterating"
    /\ probe.active_connections # <<>>
    /\ ManagerStep([probe EXCEPT !.phase = "iterating", !.start = probe.active_connections,
                                 !.it = 0, !.tried = {}, !.gone = {}])

\* broadcast, lines 195-200: the iterator yields the element at its index, or stops
\* when the index has reached the length of the list; send_json, and disconnect if
\* it raised
BroadcastNext ==
    /\ probe.phase = "iterating"
    /\ IF probe.it >= Len(probe.active_connections)
       THEN ManagerStep([probe EXCEPT !.phase = "done"])
       ELSE LET connection == probe.active_connections[probe.it + 1]
            IN  ManagerStep([probe EXCEPT
                               !.it = @ + 1,
                               !.tried = @ \cup {connection},
                               !.active_connections =
                                   IF connection \in probe.broken
                                   THEN disconnect(@, connection) ELSE @])

\* the sockets of closed connections are garbage; new clients come with new ones
Forget ==
    /\ probe.phase = "done"
    /\ ManagerStep([probe EXCEPT !.phase = "idle", !.start = <<>>, !.it = 0, !.tried = {},
                                 !.gone = {},
                                 !.broken = @ \cap Range(probe.active_connections)])

NextBroadcast ==
    \/ Connect
    \/ ClientLost
    \/ EndpointDisconnect
    \/ BroadcastBegin
    \/ BroadcastNext
    \/ Forget

SpecBroadcast == InitBroadcast /\ [][NextBroadcast]_vars

\* C29: broadcast attempts to send the message to every connection that was in
\* active_connections when the broadcast started, even when the send to some of them
\* fails and those are removed during the broadcast; no healthy connection is skipped.
C29_BroadcastReachesAll ==
    (probe.kind = "manager" /\ probe.phase = "done")
    => \A ws \in Range(probe.start) : ws \in probe.tried \/ ws \in probe.gone

-----------------------------------------------------------------------------
(* POST /preprocessing/run: PREPROCESSING_STATE, the request handler on the event
   loop and the background threads it starts, statement by statement *)

\* preprocessing runs started in one behaviour
MaxRuns == 3

\* the progress reports of data_preprocessing.main that are told apart
MaxSteps == 2

None == 0

\* PREPROCESSING_STATE as the module is loaded; the times are the number of the run
\* that wrote them
IdleState ==
    [status |-> "idle", started_at |-> None, completed_at |-> None, error |-> None,
     current_step |-> 0]

\* lines 673-681: the state a request installs, for run r
RunningState(r) ==
    [status |-> "running", started_at |-> r, completed_at |-> None, error |-> None,
     current_step |-> 0]

NotStarted == [pc |-> "not started"]

InitPre ==
    /\ model = NoModel
    /\ feature_names = <<>>
    /\ is_trained = FALSE
    /\ last_trained = 0
    /\ disk = [f \in Files |-> Absent]
    /\ trainings = 0
    /\ op = NoCall
    /\ tpc = "idle" /\ tjob = NoJob
    /\ ppc = "idle" /\ pjob = NoJob
    /\ probe = [kind |-> "preprocessing", PREPROCESSING_STATE |-> IdleState,
                handler |-> "idle", response |-> "none", runs |-> 0,
                thread |-> [r \in 1..MaxRuns |-> NotStarted]]

PreStep(p) ==
    /\ probe' = p
    /\ UNCHANGED <<pipelineVars, disk, trainings, op, tpc, tjob, ppc, pjob>>

\* lines 665-666: a request that finds the status 'running'
RunAlreadyRunning ==
    /\ probe.PREPROCESSING_STATE.status = "running"
    /\ PreStep([probe EXCEPT !.response = "already_running"])

\* lines 669-670: data_preprocessing.py is not there
RunNotAvailable ==
    /\ probe.PREPROCESSING_STATE.status # "running"
    /\ PreStep([probe EXCEPT !.response = "503"])

\* lines 665-681: the checks pass and the state is replaced (no await in between)
RunAccepted ==
    /\ probe.PREPROCESSING_STATE.status # "running"
    /\ probe.runs < MaxRuns
    /\ PreStep([probe EXCEPT !.PREPROCESSING_STATE = RunningState(probe.runs + 1),
                             !.runs = @ + 1,
                             !.handler = "broadcast",
                             !.response = "none"])

\* lines 684-687: await manager.broadcast(...); other requests are served meanwhile
RunBroadcast ==
    /\ probe.handler = "broadcast"
    /\ PreStep([probe EXCEPT !.handler = "start"])

\* lines 770-773: thread.start() and the response
RunThreadStart ==
    /\ probe.handler = "start"
    /\ PreStep([probe EXCEPT !.handler = "idle", !.response = "started",
                             !.thread[probe.runs] = [pc |-> "main"]])

\* progress_callback, lines 709-721, called from data_preprocessing.main
ThreadProgress ==
    \E r \in 1..MaxRuns :
        /\ probe.thread[r].pc = "main"
        /\ probe.PREPROCESSING_STATE.current_step < MaxSteps
        /\ PreStep([probe EXCEPT !.PREPROCESSING_STATE.current_step = @ + 1])

\* line 738: preprocessing_main(progress_callback=...) returns or raises
ThreadMainEnds ==
    \E r \in 1..MaxRuns, raised \in BOOLEAN :
        /\ probe.thread[r].pc = "main"
        /\ PreStep([probe EXCEPT !.thread[r].pc = IF raised THEN "line 755" ELSE "line 741"])

\* line 741 and line 755: PREPROCESSING_STATE["status"] = ...
ThreadSetStatus ==
    \E r \in 1..MaxRuns :
        \/ /\ probe.thread[r].pc = "line 741"
           /\ PreStep([probe EXCEPT !.PREPROCESSING_STATE.status = "complete",
                                    !.thread[r].pc = "line 742"])
        \/ /\ probe.thread[r].pc = "line 755"
           /\ PreStep([probe EXCEPT !.PREPROCESSING_STATE.status = "failed",
                                    !.thread[r].pc = "line 756"])

\* line 756: PREPROCESSING_STATE["error"] = str(e)
ThreadSetError ==
    \E r \in 1..MaxRuns :
        /\ probe.thread[r].pc = "line 756"
        /\ PreStep([probe EXCEPT !.PREPROCESSING_STATE.error = r,
                                 !.thread[r].pc = "line 757"])

\* line 742 and line 757: PREPROCESSING_STATE["completed_at"] = ...; the thread then
\* tries to broadcast and ends
ThreadSetCompleted ==
    \E r \in 1..MaxRuns :
        /\ probe.thread[r].pc \in {"line 742", "line 757"}
        /\ PreStep([probe EXCEPT !.PREPROCESSING_STATE.completed_at = r,
                                 !.thread[r].pc = "ended"])

NextPre ==
    \/ RunAlreadyRunning
    \/ RunNotAvailable
    \/ RunAccepted
    \/ RunBroadcast
    \/ RunThreadStart
    \/ ThreadProgress
    \/ ThreadMainEnds
    \/ ThreadSetStatus
    \/ ThreadSetError
    \/ ThreadSetCompleted

SpecPre == InitPre /\ [][NextPre]_vars

\* the runs whose thread has been started and has not ended
InProgress(p) == {r \in 1..MaxRuns : p.thread[r].pc \notin {"not started", "ended"}}

\* a request answered 'already_running' started no thread and left the state as it was
RejectedChangesNothing ==
    (probe'.response = "already_running" /\ probe.response # "already_running")
    => /\ probe'.PREPROCESSING_STATE = probe.PREPROCESSING_STATE
       /\ probe'.thread = probe.thread
       /\ probe'.handler = probe.handler

\* idle/complete/failed -> running -> complete or failed
StatusMoves ==
    probe'.PREPROCESSING_STATE.status # probe.PREPROCESSING_STATE.status
    => \/ /\ probe.PREPROCESSING_STATE.status \in {"idle", "complete", "failed"}
          /\ probe'.PREPROCESSING_STATE.status = "running"
       \/ /\ probe.PREPROCESSING_STATE.status = "running"
          /\ probe'.PREPROCESSING_STATE.status \in {"complete", "failed"}

\* when the thread of run r ends, the state is that of run r, 'complete' or 'failed',
\* with completed_at set
RunEndsRecorded ==
    \A r \in 1..MaxRuns :
        (probe.thread[r].pc # "ended" /\ probe'.thread[r].pc = "ended")
        => /\ probe'.PREPROCESSING_STATE.started_at = r
           /\ probe'.PREPROCESSING_STATE.status \in {"complete", "failed"}
           /\ probe'.PREPROCESSING_STATE.completed_at # None

\* C30: at most one preprocessing run is in progress at any time: a request received
\* while the status is 'running' starts no thread, returns 'already_running' and leaves
\* the state unchanged; the status only moves idle/complete/failed -> running ->
\* complete or failed; every started run ends in 'complete' or 'failed' with
\* completed_at set.
C30_OneRunAtATime ==
    [][/\ Cardinality(InProgress(probe')) <= 1
       /\ RejectedChangesNothing
       /\ StatusMoves
       /\ RunEndsRecorded]_vars

====
